---------------------------- MODULE Spec2Model ----------------------------
(***************************************************************************)
(* A model of src/sudoku.c: the candidate-set representation of a 9x9      *)
(* sudoku, region elimination, the validity checker, the elimination       *)
(* solver, the backtracking solver, the generator and the text loader and  *)
(* printer.                                                                *)
(*                                                                         *)
(* A cell (an unsigned int of which the code only ever sets the low nine   *)
(* bits) is modelled as the set of digits whose bit is set: bit (d-1) set  *)
(* <=> d \in cell.  Bitwise AND is intersection, OR is union, XOR is the   *)
(* symmetric difference.  The grid unsigned int sudoku[9][9] is modelled   *)
(* by its memory layout, a function on 0..80 (the code itself casts it to  *)
(* unsigned int[81]); sudoku[i][j] is cell 9*i + j.                        *)
(***************************************************************************)
EXTENDS Integers, FiniteSets, Sequences, TLC

VARIABLES
  sudoku,   \* the caller's grid, mutated in place by the operations
  given,    \* the grid as it was when the running (or last) call was entered
  pc,       \* control location of the caller / of the running operation
  ret,      \* return value of the last completed call
  stderr,   \* number of ERROR lines written to stderr
  passes,   \* number of elimination passes the last solve call ran
  stack,    \* generic_solve: the frames of the recursion, innermost last
  gen,      \* generate / is_solvable: the local variables
  io,       \* load / print: the read position and the loop variables
  stdin,    \* load: the characters of the input stream
  stdout,   \* print: the characters written
  steps     \* generic_solve: the number of steps taken since the call

vars == <<sudoku, given, pc, ret, stderr, passes, stack, gen, io, stdin, stdout, steps>>

-----------------------------------------------------------------------------
(* Constants of the program *)

NINE_ONES == 1..9
EMPTY_CELL == {}

Cells == 0..80
Cell(i, j) == 9 * i + j

-----------------------------------------------------------------------------
(* Auxiliary functions (bit sets) *)

Xor(a, b) == (a \ b) \cup (b \ a)

contain(original, number) == ({number} \cap original) # {}

bitset_add(original, number) == original \cup {number}

bitset_is_unique(original) == Cardinality({num \in 1..9 : num \in original}) = 1

bitset_next(bitset, previous) ==
  LET hits == {i \in previous..9 : (i + 1) \in bitset}
  IN IF hits = {} THEN -1
     ELSE (CHOOSE i \in hits : \A k \in hits : i <= k) + 1

copy_array(copy_from) == [i \in Cells |-> copy_from[i]]

\* The cells visited by "for i in row_start..row_end-1, for j in
\* col_start..col_end-1", in the order of the loops.
Area(row_start, row_end, col_start, col_end) ==
  [k \in 1..((row_end - row_start) * (col_end - col_start)) |->
     Cell(row_start + ((k - 1) \div (col_end - col_start)),
          col_start + ((k - 1) % (col_end - col_start)))]

Range(f) == {f[x] : x \in DOMAIN f}

RECURSIVE make_bitset_loop(_, _, _, _)
make_bitset_loop(s, area, k, mask) ==
  IF k > Len(area) THEN mask
  ELSE make_bitset_loop(s, area, k + 1,
         IF bitset_is_unique(s[area[k]])
         THEN Xor(mask, s[area[k]]) \cap NINE_ONES
         ELSE mask)

make_bitset(s, row_start, row_end, col_start, col_end) ==
  make_bitset_loop(s, Area(row_start, row_end, col_start, col_end), 1, NINE_ONES)

-----------------------------------------------------------------------------
(* Elimination.  Each operator returns the grid after the call and the     *)
(* call's return value.  The mask is computed once, before the loop; the   *)
(* loop changes only cells that are not unique, so is_change (the OR of    *)
(* "original != new" over the cells of the region) is "the grid changed".  *)

eliminate_row_assign(s, row_index) ==
  LET mask == make_bitset(s, row_index, row_index + 1, 0, 9)
      cells == {Cell(row_index, j) : j \in 0..8}
      after == [c \in Cells |->
                  IF c \in cells /\ ~bitset_is_unique(s[c]) THEN mask ELSE s[c]]
  IN [sudoku |-> after, is_change |-> after # s]

eliminate_row(s, row_index) ==
  LET mask == make_bitset(s, row_index, row_index + 1, 0, 9)
      cells == {Cell(row_index, j) : j \in 0..8}
      after == [c \in Cells |->
                  IF c \in cells /\ ~bitset_is_unique(s[c]) THEN s[c] \cap mask ELSE s[c]]
  IN [sudoku |-> after, is_change |-> after # s]

eliminate_col(s, col_index) ==
  LET mask == make_bitset(s, 0, 9, col_index, col_index + 1)
      cells == {Cell(i, col_index) : i \in 0..8}
      after == [c \in Cells |->
                  IF c \in cells /\ ~bitset_is_unique(s[c]) THEN s[c] \cap mask ELSE s[c]]
  IN [sudoku |-> after, is_change |-> after # s]

eliminate_box(s, row_index, col_index) ==
  LET mask == make_bitset(s, row_index, row_index + 3, col_index, col_index + 3)
      cells == {Cell(i, j) : i \in row_index..(row_index + 2), j \in col_index..(col_index + 2)}
      after == [c \in Cells |->
                  IF c \in cells /\ ~bitset_is_unique(s[c]) THEN s[c] \cap mask ELSE s[c]]
  IN [sudoku |-> after, is_change |-> after # s]

needs_solving(s) == \E i \in 0..8 : \E j \in 0..8 : ~bitset_is_unique(s[Cell(i, j)])

-----------------------------------------------------------------------------
(* Validity *)

\* The loop shared by is_valid_row, is_valid_col and is_valid_box: the cells
\* of the region in loop order, an accumulating mask, and the early returns.
RECURSIVE is_valid_loop(_, _, _, _)
is_valid_loop(s, area, k, mask) ==
  IF k > Len(area) THEN TRUE
  ELSE IF s[area[k]] = EMPTY_CELL THEN FALSE
  ELSE IF bitset_is_unique(s[area[k]])
       THEN IF (s[area[k]] \cup mask) = mask THEN FALSE
            ELSE is_valid_loop(s, area, k + 1, s[area[k]] \cup mask)
       ELSE is_valid_loop(s, area, k + 1, mask)

is_valid_row(s, row) == is_valid_loop(s, Area(row, row + 1, 0, 9), 1, {})

is_valid_col(s, col) == is_valid_loop(s, Area(0, 9, col, col + 1), 1, {})

is_valid_box(s, row, col) == is_valid_loop(s, Area(row, row + 3, col, col + 3), 1, {})

is_valid(s) ==
  \A i \in 0..8 :
    /\ is_valid_row(s, i)
    /\ is_valid_col(s, i)
    /\ is_valid_box(s, (i \div 3) * 3, (i % 3) * 3)

-----------------------------------------------------------------------------
(* solve *)

\* The three for loops of one iteration of solve's while loop.  Each takes
\* the grid and is_change so far and returns them after the loop; the branch
\* on the new is_change is "is_change = eliminate_x(...) || is_change".
RECURSIVE eliminate_rows(_, _, _)
eliminate_rows(s, row, is_change) ==
  IF row >= 9 THEN [sudoku |-> s, is_change |-> is_change]
  ELSE LET e == eliminate_row(s, row)
       IN IF e.is_change \/ is_change
          THEN eliminate_rows(e.sudoku, row + 1, TRUE)
          ELSE eliminate_rows(e.sudoku, row + 1, FALSE)

RECURSIVE eliminate_cols(_, _, _)
eliminate_cols(s, col, is_change) ==
  IF col >= 9 THEN [sudoku |-> s, is_change |-> is_change]
  ELSE LET e == eliminate_col(s, col)
       IN IF e.is_change \/ is_change
          THEN eliminate_cols(e.sudoku, col + 1, TRUE)
          ELSE eliminate_cols(e.sudoku, col + 1, FALSE)

\* The nested box loops (row += 3, col += 3), n counting the boxes done.
RECURSIVE eliminate_boxes(_, _, _)
eliminate_boxes(s, n, is_change) ==
  IF n >= 9 THEN [sudoku |-> s, is_change |-> is_change]
  ELSE LET e == eliminate_box(s, (n \div 3) * 3, (n % 3) * 3)
       IN IF e.is_change \/ is_change
          THEN eliminate_boxes(e.sudoku, n + 1, TRUE)
          ELSE eliminate_boxes(e.sudoku, n + 1, FALSE)

\* One iteration of the while loop up to the validity check: rows, then
\* columns, then boxes.
elimination_pass(s) ==
  LET rows == eliminate_rows(s, 0, FALSE)
      cols == IF rows.is_change THEN eliminate_cols(rows.sudoku, 0, TRUE)
              ELSE eliminate_cols(rows.sudoku, 0, FALSE)
  IN IF cols.is_change THEN eliminate_boxes(cols.sudoku, 0, TRUE)
     ELSE eliminate_boxes(cols.sudoku, 0, FALSE)

\* The mutant of solve_loop that does not re-check validity after a pass.
RECURSIVE solve_loop_unchecked(_, _)
solve_loop_unchecked(s, n) ==
  IF ~needs_solving(s) THEN [ret |-> TRUE, sudoku |-> s, errors |-> 0, passes |-> n]
  ELSE LET p == elimination_pass(s) IN
       IF ~p.is_change
       THEN [ret |-> FALSE, sudoku |-> p.sudoku, errors |-> 0, passes |-> n + 1]
       ELSE solve_loop_unchecked(p.sudoku, n + 1)

\* The mutant of solve_loop that fails after a contradiction without the report.
RECURSIVE solve_loop_silent(_, _)
solve_loop_silent(s, n) ==
  IF ~needs_solving(s) THEN [ret |-> TRUE, sudoku |-> s, errors |-> 0, passes |-> n]
  ELSE LET p == elimination_pass(s) IN
       IF ~is_valid(p.sudoku)
       THEN [ret |-> FALSE, sudoku |-> p.sudoku, errors |-> 0, passes |-> n + 1]
       ELSE IF ~p.is_change
       THEN [ret |-> FALSE, sudoku |-> p.sudoku, errors |-> 0, passes |-> n + 1]
       ELSE solve_loop_silent(p.sudoku, n + 1)

\* solve's while loop; n counts the passes run so far.
RECURSIVE solve_loop(_, _)
solve_loop(s, n) ==
  IF ~needs_solving(s) THEN [ret |-> TRUE, sudoku |-> s, errors |-> 0, passes |-> n]
  ELSE LET p == elimination_pass(s) IN
       IF ~is_valid(p.sudoku)
       THEN [ret |-> FALSE, sudoku |-> p.sudoku, errors |-> 1, passes |-> n + 1]
       ELSE IF ~p.is_change
       THEN [ret |-> FALSE, sudoku |-> p.sudoku, errors |-> 0, passes |-> n + 1]
       ELSE solve_loop(p.sudoku, n + 1)

\* The mutant of solve that runs the loop without the check on entry.
solve_no_entry_check(s) == solve_loop(s, 0)

\* solve: the grid it leaves, its return value, the ERROR lines it writes and
\* the number of elimination passes it ran.
solve(s) ==
  IF ~is_valid(s) THEN [ret |-> FALSE, sudoku |-> s, errors |-> 1, passes |-> 0]
  ELSE solve_loop(s, 0)

-----------------------------------------------------------------------------
(* What the claims speak about, stated on the grid and not through the     *)
(* code's own checks.                                                      *)

RowCells(r) == {Cell(r, j) : j \in 0..8}
ColCells(c) == {Cell(i, c) : i \in 0..8}
BoxCells(b) == {Cell(3 * (b \div 3) + i, 3 * (b % 3) + j) : i \in 0..2, j \in 0..2}
Regions == {RowCells(r) : r \in 0..8} \cup {ColCells(c) : c \in 0..8}
             \cup {BoxCells(b) : b \in 0..8}

Resolved(g, c) == Cardinality(g[c]) = 1
DuplicateIn(g, R) ==
  \E c1 \in R : \E c2 \in R : c1 # c2 /\ Resolved(g, c1) /\ Resolved(g, c2) /\ g[c1] = g[c2]
HasEmptyCell(g) == \E c \in Cells : g[c] = {}
ValidGrid(g) == ~HasEmptyCell(g) /\ \A R \in Regions : ~DuplicateIn(g, R)
FullyResolved(g) == \A c \in Cells : Resolved(g, c)

-----------------------------------------------------------------------------
(* Input grids: a solved grid, puzzles carved from it, and edits of single *)
(* cells (any text the loader accepts yields such grids).                  *)

Solved ==
  << 5,3,4,6,7,8,9,1,2,  6,7,2,1,9,5,3,4,8,  1,9,8,3,4,2,5,6,7,
     8,5,9,7,6,1,4,2,3,  4,2,6,8,5,3,7,9,1,  7,1,3,9,2,4,8,5,6,
     9,6,1,5,3,7,2,8,4,  2,8,7,4,1,9,6,3,5,  3,4,5,2,8,6,1,7,9 >>

Full == [c \in Cells |-> {Solved[c + 1]}]
Blank(g, B) == [c \in Cells |-> IF c \in B THEN NINE_ONES ELSE g[c]]

\* Four cells holding 6,7 / 7,6: open, the puzzle has two solutions.
Rect == {3, 4, 30, 31}
\* 51 open cells; elimination alone solves it (7 passes).
Easy == {2, 3, 5, 6, 7, 8, 10, 11, 15, 16, 17, 18, 21, 22, 23, 24, 26, 28, 29,
         30, 32, 33, 34, 37, 38, 40, 42, 43, 46, 47, 48, 50, 51, 52, 54, 56,
         57, 58, 59, 62, 63, 64, 65, 69, 70, 72, 73, 74, 75, 77, 78}
\* 32 open cells; one solution, and elimination alone gets stuck.
Hard == {1, 2, 3, 4, 7, 16, 19, 29, 30, 38, 40, 43, 45, 46, 47, 48, 50, 53, 54,
         55, 57, 59, 60, 61, 62, 65, 66, 73, 74, 75, 77, 80}

MaxEdits == 1
EditCells == {0, 5, 40, 80}
EditValues == {NINE_ONES, EMPTY_CELL, {5}, {5, 6}, {1, 2}}

RECURSIVE Edited(_, _)
Edited(G, k) ==
  IF k = 0 THEN G
  ELSE LET H == Edited(G, k - 1)
       IN H \cup {[g EXCEPT ![c] = v] : g \in H, c \in EditCells, v \in EditValues}

-----------------------------------------------------------------------------
(* SpecElim: a caller applies the three elimination functions to a grid.   *)

ElimInputs == Edited({Full, Blank(Full, Rect), Blank(Full, {0, 1, 9, 40})}, MaxEdits)

\* generate's locals before its first statement: unsigned int mask[81] = {0}.
NoScan == [i |-> 0, index |-> 0, mask |-> [k \in Cells |-> 0], removals |-> 0]

\* The locals of load and print before the call.
NoIo == [pos |-> 1, cell_pointer |-> 0, col_index |-> 0, rows_loaded |-> 0,
         num_rows_loaded |-> 0, col |-> 0, i |-> 0]

Idle ==
  /\ ret = FALSE /\ stderr = 0 /\ passes = 0 /\ stack = << >>
  /\ gen = NoScan /\ io = NoIo /\ stdin = << >> /\ stdout = << >> /\ steps = 0

InitElim ==
  /\ sudoku \in ElimInputs
  /\ given = sudoku
  /\ pc = "ready"
  /\ Idle

Returned(e) ==
  /\ given' = sudoku
  /\ sudoku' = e.sudoku
  /\ ret' = e.is_change
  /\ pc' = "returned"
  /\ UNCHANGED <<stderr, passes, stack, gen, io, stdin, stdout, steps>>

EliminateRow == \E row_index \in 0..8 : Returned(eliminate_row(sudoku, row_index))
EliminateCol == \E col_index \in 0..8 : Returned(eliminate_col(sudoku, col_index))
EliminateBox ==
  \E row_index \in {0, 3, 6} : \E col_index \in {0, 3, 6} :
    Returned(eliminate_box(sudoku, row_index, col_index))

NextElim == EliminateRow \/ EliminateCol \/ EliminateBox
SpecElim == InitElim /\ [][NextElim]_vars

-----------------------------------------------------------------------------
(* SpecSolve: a caller runs solve on a grid.                               *)

SolveInputs ==
  Edited({Full, Blank(Full, Rect), Blank(Full, Easy), Blank(Full, Hard)}, MaxEdits)

InitSolve ==
  /\ sudoku \in SolveInputs
  /\ given = sudoku
  /\ pc = "call"
  /\ Idle

CallSolve ==
  /\ pc = "call"
  /\ LET r == solve(sudoku) IN
       /\ sudoku' = r.sudoku
       /\ ret' = r.ret
       /\ stderr' = stderr + r.errors
       /\ passes' = r.passes
  /\ pc' = "done"
  /\ UNCHANGED <<given, stack, gen, io, stdin, stdout, steps>>

NextSolve == CallSolve
SpecSolve == InitSolve /\ [][NextSolve]_vars

-----------------------------------------------------------------------------
(* SpecSearch: a caller runs generic_solve on a grid.  The recursion is a  *)
(* stack of frames, one per invocation that found an open cell: the cell   *)
(* (row, col), the snapshot orig_sud, the loop variable num, and whether   *)
(* the invocation is waiting in "return generic_solve(sudoku)".            *)

\* 22 open cells with two or three candidates each; one solution, and
\* elimination alone removes nothing.
Stuck ==
  [c \in Cells |->
     CASE c \in {1, 5, 15, 17, 21, 39, 41} -> {3, 8}
       [] c \in {20, 51, 60, 61} -> {2, 8}
       [] c \in {31, 34, 49} -> {2, 6}
       [] c \in {25, 53} -> {6, 8}
       [] c \in {64, 65} -> {7, 8}
       [] c = 10 -> {3, 7, 8}
       [] c = 11 -> {2, 7, 8}
       [] c = 23 -> {2, 3, 8}
       [] c = 35 -> {3, 6}
       [] OTHER -> {Solved[c + 1]}]

\* Grid g with the digits a and b exchanged in every cell.
Relabel(g, a, b) ==
  [c \in Cells |-> {IF d = a THEN b ELSE IF d = b THEN a ELSE d : d \in g[c]}]

\* Stuck with 3 and 8 exchanged: the first candidate of its first open cell
\* is the wrong one, and the grid it gives is valid.
StuckWrongFirst == Relabel(Stuck, 3, 8)

\* The solved grid with three cells opened and a 4 written where the 1 of
\* row 7 belongs: no row, column or box repeats a digit, and no solution.
WrongGiven == [Blank(Full, {22, 66, 67}) EXCEPT ![67] = {4}]

SearchInputs ==
  Edited({Full, Blank(Full, {0}), Blank(Full, Rect), Blank(Full, Hard), Stuck,
          StuckWrongFirst, WrongGiven}, MaxEdits)

InitSearch ==
  /\ sudoku \in SearchInputs
  /\ given = sudoku
  /\ pc = "call"
  /\ Idle

HasOpenCell(s) == \E c \in Cells : ~bitset_is_unique(s[c])

\* The first cell, in the order of the two for loops, that is not unique.
FirstOpenCell(s) ==
  CHOOSE c \in Cells :
    /\ ~bitset_is_unique(s[c])
    /\ \A d \in 0..(c - 1) : bitset_is_unique(s[d])

\* The next value of num, from n on, that passes "if (contain(cell, num))";
\* 10 when the for loop ends.
NextNum(cell, n) ==
  IF \E num \in n..9 : contain(cell, num)
  THEN CHOOSE num \in n..9 : contain(cell, num) /\ \A m \in n..(num - 1) : ~contain(cell, m)
  ELSE 10

Top == stack[Len(stack)]
Pop == SubSeq(stack, 1, Len(stack) - 1)
TopCell == Cell(Top.row, Top.col)

\* if (!is_valid(sudoku)) return false;
GsRejectInvalid ==
  /\ pc = "call"
  /\ is_valid(sudoku) = FALSE
  /\ ret' = FALSE
  /\ pc' = "return"
  /\ UNCHANGED <<sudoku, given, stderr, passes, stack, gen, io, stdin, stdout>>
  /\ steps' = steps + 1

\* The loops find no cell that is not unique: return true.
GsNoOpenCell ==
  /\ pc = "call"
  /\ is_valid(sudoku) = TRUE
  /\ HasOpenCell(sudoku) = FALSE
  /\ ret' = TRUE
  /\ pc' = "return"
  /\ UNCHANGED <<sudoku, given, stderr, passes, stack, gen, io, stdin, stdout>>
  /\ steps' = steps + 1

\* The first open cell is found: snapshot the grid, run solve on it.
GsTrySolve ==
  /\ pc = "call"
  /\ is_valid(sudoku) = TRUE
  /\ HasOpenCell(sudoku) = TRUE
  /\ LET c == FirstOpenCell(sudoku)
         r == solve(sudoku)
     IN /\ stack' = Append(stack, [row |-> c \div 9, col |-> c % 9,
                                   orig_sud |-> copy_array(sudoku), num |-> 0,
                                   tail |-> FALSE])
        /\ sudoku' = r.sudoku
        /\ ret' = r.ret
        /\ stderr' = stderr + r.errors
        /\ passes' = r.passes
  /\ pc' = "solved"
  /\ UNCHANGED <<given, gen, io, stdin, stdout>>
  /\ steps' = steps + 1

\* if (solve(sudoku)) return true;
GsSolveSucceeded ==
  /\ pc = "solved"
  /\ ret = TRUE
  /\ stack' = Pop
  /\ pc' = "return"
  /\ UNCHANGED <<sudoku, given, ret, stderr, passes, gen, io, stdin, stdout>>
  /\ steps' = steps + 1

\* if (bitset_is_unique(sudoku[row][col])) return generic_solve(sudoku);
GsTailCall ==
  /\ pc = "solved"
  /\ ret = FALSE
  /\ bitset_is_unique(sudoku[TopCell])
  /\ stack' = [stack EXCEPT ![Len(stack)].tail = TRUE]
  /\ pc' = "call"
  /\ UNCHANGED <<sudoku, given, ret, stderr, passes, gen, io, stdin, stdout>>
  /\ steps' = steps + 1

\* The mutant of GuessFrom that tries every digit, in the snapshot's
\* candidate set or not.
GuessFromAnyDigit(s, n) ==
  LET num == NextNum(NINE_ONES, n) IN
  IF num <= 9
  THEN /\ sudoku' = [s EXCEPT ![TopCell] = bitset_add(EMPTY_CELL, num)]
       /\ stack' = [stack EXCEPT ![Len(stack)].num = num]
       /\ pc' = "call"
       /\ UNCHANGED ret
  ELSE /\ sudoku' = s
       /\ stack' = Pop
       /\ ret' = FALSE
       /\ pc' = "return"

\* The for loop over num, entered at n on grid s: fix the cell to the next
\* candidate of the snapshot and call generic_solve, or leave the loop and
\* return false.
GuessFrom(s, n) ==
  LET num == NextNum(Top.orig_sud[TopCell], n) IN
  IF num <= 9
  THEN /\ sudoku' = [s EXCEPT ![TopCell] = bitset_add(EMPTY_CELL, num)]
       /\ stack' = [stack EXCEPT ![Len(stack)].num = num]
       /\ pc' = "call"
       /\ UNCHANGED ret
  ELSE /\ sudoku' = s
       /\ stack' = Pop
       /\ ret' = FALSE
       /\ pc' = "return"

\* solve failed and left the cell open: the first iteration of the loop.
GsGuessFirst ==
  /\ pc = "solved"
  /\ ret = FALSE
  /\ ~bitset_is_unique(sudoku[TopCell])
  /\ GuessFrom(sudoku, 1)
  /\ UNCHANGED <<given, stderr, passes, gen, io, stdin, stdout>>
  /\ steps' = steps + 1

\* The mutant of GsGuessFailed that gives up after the first failed guess.
GsGuessFailedGiveUp ==
  /\ pc = "return"
  /\ stack # << >>
  /\ ~Top.tail
  /\ ret = FALSE
  /\ sudoku' = copy_array(Top.orig_sud)
  /\ stack' = Pop
  /\ UNCHANGED <<given, pc, ret, stderr, passes, gen, io, stdin, stdout>>
  /\ steps' = steps + 1

\* The recursive call of the loop body returned false: restore the snapshot
\* and go on with the loop.
GsGuessFailed ==
  /\ pc = "return"
  /\ stack # << >>
  /\ ~Top.tail
  /\ ret = FALSE
  /\ GuessFrom(copy_array(Top.orig_sud), Top.num + 1)
  /\ UNCHANGED <<given, stderr, passes, gen, io, stdin, stdout>>
  /\ steps' = steps + 1

\* if (generic_solve(sudoku)) return true;
GsGuessSucceeded ==
  /\ pc = "return"
  /\ stack # << >>
  /\ ~Top.tail
  /\ ret = TRUE
  /\ stack' = Pop
  /\ UNCHANGED <<sudoku, given, pc, ret, stderr, passes, gen, io, stdin, stdout>>
  /\ steps' = steps + 1

\* return generic_solve(sudoku): the callee's value is the caller's.
GsTailReturn ==
  /\ pc = "return"
  /\ stack # << >>
  /\ Top.tail
  /\ stack' = Pop
  /\ UNCHANGED <<sudoku, given, pc, ret, stderr, passes, gen, io, stdin, stdout>>
  /\ steps' = steps + 1

\* The outermost invocation returns to the caller.
GsDone ==
  /\ pc = "return"
  /\ stack = << >>
  /\ pc' = "done"
  /\ UNCHANGED <<sudoku, given, ret, stderr, passes, stack, gen, io, stdin, stdout>>
  /\ steps' = steps + 1

NextSearch ==
  \/ GsRejectInvalid \/ GsNoOpenCell \/ GsTrySolve
  \/ GsSolveSucceeded \/ GsTailCall \/ GsGuessFirst
  \/ GsGuessFailed \/ GsGuessSucceeded \/ GsTailReturn \/ GsDone

\* Every step increases steps, so no behaviour of SpecSearch revisits a state:
\* the reachable states are finitely many exactly if every run of
\* generic_solve on these inputs is finite.
SpecSearch == InitSearch /\ [][NextSearch]_vars

-----------------------------------------------------------------------------
(* SpecGenerate: a caller runs generate on a grid.  gen holds the locals:  *)
(* is_solvable's loop variable i and its index, the array mask, and the    *)
(* number of cells generate has removed so far.  sud_copy is written anew  *)
(* before every use and read by nobody after solve returns.                *)

\* The cells the deterministic run of generate (rand() always 0) on the
\* solved grid has opened when it returns: 25 givens are left.
Carved ==
  {0, 1, 2, 3, 4, 5, 6, 7, 8, 9, 10, 11, 12, 13, 14, 16, 18, 19, 20, 21, 22,
   26, 27, 28, 30, 32, 33, 34, 35, 36, 37, 39, 40, 43, 44, 45, 47, 48, 49, 50,
   53, 54, 56, 57, 58, 60, 61, 63, 66, 69, 70, 71, 72, 75, 77, 79}

AllOpen == [c \in Cells |-> NINE_ONES]

\* rand() returns a value of 0..MaxRand.
MaxRand == 1
\* generate removes at most MaxRemovals cells.
MaxRemovals == 2

GenerateInputs ==
  {Full, AllOpen, Blank(Full, Rect), [Full EXCEPT ![5] = {5}],
   Blank(Full, Carved), Blank(Full, Carved \ {0}), Blank(Full, Carved \ {0, 1}),
   Blank(Full, Carved \ {0, 1, 2})}

InitGenerate ==
  /\ sudoku \in GenerateInputs
  /\ given = sudoku
  /\ pc = "scan"
  /\ Idle

shake(limit, rand) == rand % limit

\* The mutant of IsSolvableStep that records every unique cell, solvable
\* without it or not.
IsSolvableStepUntested ==
  /\ pc = "scan"
  /\ gen.i < 81
  /\ LET i == gen.i
         mask == [gen.mask EXCEPT ![i] = 0]
     IN IF bitset_is_unique(sudoku[i])
        THEN gen' = [gen EXCEPT !.mask = [mask EXCEPT ![gen.index] = i],
                                !.index = gen.index + 1, !.i = i + 1]
        ELSE gen' = [gen EXCEPT !.mask = mask, !.i = i + 1]
  /\ UNCHANGED <<sudoku, given, pc, ret, stderr, passes, stack, io, stdin, stdout, steps>>

\* One iteration of is_solvable's for loop.
IsSolvableStep ==
  /\ pc = "scan"
  /\ gen.i < 81
  /\ LET i == gen.i
         mask == [gen.mask EXCEPT ![i] = 0]
         sud_copy == [copy_array(sudoku) EXCEPT ![i] = NINE_ONES]
     IN IF bitset_is_unique(sudoku[i]) /\ solve(sud_copy).ret
        THEN gen' = [gen EXCEPT !.mask = [mask EXCEPT ![gen.index] = i],
                                !.index = gen.index + 1, !.i = i + 1]
        ELSE gen' = [gen EXCEPT !.mask = mask, !.i = i + 1]
  /\ UNCHANGED <<sudoku, given, pc, ret, stderr, passes, stack, io, stdin, stdout, steps>>

\* is_solvable returned count > 0: the body of generate's while loop, up to
\* the next call of is_solvable.
GenerateRemove ==
  /\ pc = "scan"
  /\ gen.i = 81
  /\ gen.index > 0
  /\ gen.removals < MaxRemovals
  /\ \E rand \in 0..MaxRand :
       LET i == gen.mask[shake(gen.index, rand)]
       IN sudoku' = [sudoku EXCEPT ![i] = NINE_ONES]
  /\ gen' = [gen EXCEPT !.i = 0, !.index = 0, !.removals = gen.removals + 1]
  /\ UNCHANGED <<given, pc, ret, stderr, passes, stack, io, stdin, stdout, steps>>

\* The mutant of GenerateReturn for "while (count > 1)".
GenerateReturnOneLeft ==
  /\ pc = "scan"
  /\ gen.i = 81
  /\ gen.index <= 1
  /\ pc' = "done"
  /\ UNCHANGED <<sudoku, given, ret, stderr, passes, stack, gen, io, stdin, stdout, steps>>

\* is_solvable returned 0: the while loop ends and generate returns.
GenerateReturn ==
  /\ pc = "scan"
  /\ gen.i = 81
  /\ gen.index = 0
  /\ pc' = "done"
  /\ UNCHANGED <<sudoku, given, ret, stderr, passes, stack, gen, io, stdin, stdout, steps>>

NextGenerate == IsSolvableStep \/ GenerateRemove \/ GenerateReturn

SpecGenerate == InitGenerate /\ [][NextGenerate]_vars

-----------------------------------------------------------------------------
(* SpecIO: a caller runs load on the text in stdin and, when load returns  *)
(* true, print on the grid.  A character is a string of length one; io.pos *)
(* is the position of the character the next getchar returns, past the end *)
(* of stdin when it returns EOF.                                            *)

\* pref of check_plus_minus and delim of print: "+-------+-------+-------+\n"
delim ==
  <<"+", "-", "-", "-", "-", "-", "-", "-",
    "+", "-", "-", "-", "-", "-", "-", "-",
    "+", "-", "-", "-", "-", "-", "-", "-", "+", "\n">>

\* The characters '0' to '9' in the order of their codes.
Digits == <<"0", "1", "2", "3", "4", "5", "6", "7", "8", "9">>

isdigit(chr) == \E d \in 0..9 : Digits[d + 1] = chr

\* chr - '0'
DigitValue(chr) == CHOOSE d \in 0..9 : Digits[d + 1] = chr

AtEOF == io.pos > Len(stdin)

\* fprintf(stderr, ERROR); return false;  with the characters before pos read
LoadFails(pos) ==
  /\ ret' = FALSE
  /\ stderr' = stderr + 1
  /\ pc' = "loaded"
  /\ io' = [io EXCEPT !.pos = pos]

\* return true;  with the characters before pos read
LoadSucceeds(pos) ==
  /\ ret' = TRUE
  /\ pc' = "loaded"
  /\ io' = [io EXCEPT !.pos = pos]
  /\ UNCHANGED stderr

\* load up to its call of load_numeric_format or check_plus_minus(1).
Load ==
  /\ pc = "load"
  /\ IF AtEOF
     THEN LoadFails(io.pos) /\ UNCHANGED sudoku
     ELSE LET chr == stdin[io.pos]
              num == DigitValue(chr)
          IN IF isdigit(chr)
             THEN /\ sudoku' = [sudoku EXCEPT ![0] =
                                  IF num # 0 THEN bitset_add(EMPTY_CELL, num)
                                             ELSE NINE_ONES]
                  /\ io' = [io EXCEPT !.pos = io.pos + 1, !.cell_pointer = 1]
                  /\ pc' = "numeric"
                  /\ UNCHANGED <<ret, stderr>>
             ELSE IF chr = "+"
             THEN /\ io' = [io EXCEPT !.pos = io.pos + 1, !.col_index = 1]
                  /\ pc' = "plus_minus"
                  /\ UNCHANGED <<sudoku, ret, stderr>>
             ELSE LoadFails(io.pos + 1) /\ UNCHANGED sudoku
  /\ UNCHANGED <<given, passes, stack, gen, stdin, stdout, steps>>

\* One iteration of load_numeric_format's while loop.
LoadNumericChar ==
  /\ pc = "numeric"
  /\ io.cell_pointer < 81
  /\ IF AtEOF
     THEN LoadFails(io.pos) /\ UNCHANGED sudoku
     ELSE LET chr == stdin[io.pos]
          IN IF ~isdigit(chr)
             THEN LoadFails(io.pos + 1) /\ UNCHANGED sudoku
             ELSE /\ sudoku' = [sudoku EXCEPT ![io.cell_pointer] =
                                  IF chr # "0"
                                  THEN bitset_add(EMPTY_CELL, DigitValue(chr))
                                  ELSE NINE_ONES]
                  /\ io' = [io EXCEPT !.pos = io.pos + 1,
                                      !.cell_pointer = io.cell_pointer + 1]
                  /\ UNCHANGED <<pc, ret, stderr>>
  /\ UNCHANGED <<given, passes, stack, gen, stdin, stdout, steps>>

\* return cell_pointer == 81 && (((chr = getchar()) == EOF) || chr == '\n');
LoadNumericEnd ==
  /\ pc = "numeric"
  /\ io.cell_pointer = 81
  /\ IF AtEOF THEN LoadSucceeds(io.pos)
     ELSE IF stdin[io.pos] = "\n" THEN LoadSucceeds(io.pos + 1)
     ELSE LoadFails(io.pos + 1)
  /\ UNCHANGED <<sudoku, given, passes, stack, gen, stdin, stdout, steps>>

\* load_ascii_format's while loop with rows_loaded = r and num_rows_loaded
\* = n: its test and the call of the iteration.  load's own call of
\* check_plus_minus is the row before the loop, r = 0.
AsciiRow(r, n, pos) ==
  IF r = 13
  THEN LoadSucceeds(pos)
  ELSE /\ io' = [io EXCEPT !.pos = pos, !.rows_loaded = r, !.num_rows_loaded = n,
                           !.col_index = 0, !.cell_pointer = 0, !.col = 0]
       /\ pc' = IF r % 4 = 0 THEN "plus_minus" ELSE "normal_row"
       /\ UNCHANGED <<ret, stderr>>

\* One iteration of check_plus_minus's while loop, and its return when the
\* line is complete.
CheckPlusMinusChar ==
  /\ pc = "plus_minus"
  /\ IF AtEOF THEN LoadFails(io.pos)
     ELSE IF delim[io.col_index + 1] # stdin[io.pos] THEN LoadFails(io.pos + 1)
     ELSE IF io.col_index + 1 < 26
     THEN /\ io' = [io EXCEPT !.pos = io.pos + 1, !.col_index = io.col_index + 1]
          /\ UNCHANGED <<pc, ret, stderr>>
     ELSE AsciiRow(io.rows_loaded + 1, io.num_rows_loaded, io.pos + 1)
  /\ UNCHANGED <<sudoku, given, passes, stack, gen, stdin, stdout, steps>>

\* One iteration of check_normal_row's while loop.
CheckNormalRowChar ==
  /\ pc = "normal_row"
  /\ io.cell_pointer < 25
  /\ IF AtEOF
     THEN LoadFails(io.pos) /\ UNCHANGED sudoku
     ELSE LET chr == stdin[io.pos]
              cell == Cell(io.num_rows_loaded, io.col)
              next == [io EXCEPT !.pos = io.pos + 1,
                                 !.cell_pointer = io.cell_pointer + 1]
          IN IF io.cell_pointer % 8 = 0
             THEN IF chr # "|"
                  THEN LoadFails(io.pos + 1) /\ UNCHANGED sudoku
                  ELSE io' = next /\ UNCHANGED <<sudoku, pc, ret, stderr>>
             ELSE IF io.cell_pointer % 2 = 0
             THEN IF chr = "." \/ chr = "0"
                  THEN /\ sudoku' = [sudoku EXCEPT ![cell] = NINE_ONES]
                       /\ io' = [next EXCEPT !.col = io.col + 1]
                       /\ UNCHANGED <<pc, ret, stderr>>
                  ELSE IF chr = "!"
                  THEN /\ sudoku' = [sudoku EXCEPT ![cell] = EMPTY_CELL]
                       /\ io' = [next EXCEPT !.col = io.col + 1]
                       /\ UNCHANGED <<pc, ret, stderr>>
                  ELSE IF isdigit(chr)
                  THEN /\ sudoku' = [sudoku EXCEPT ![cell] =
                                       bitset_add(EMPTY_CELL, DigitValue(chr))]
                       /\ io' = [next EXCEPT !.col = io.col + 1]
                       /\ UNCHANGED <<pc, ret, stderr>>
                  ELSE /\ sudoku' = [sudoku EXCEPT ![cell] = EMPTY_CELL]
                       /\ LoadFails(io.pos + 1)
             ELSE IF chr # " "
             THEN LoadFails(io.pos + 1) /\ UNCHANGED sudoku
             ELSE io' = next /\ UNCHANGED <<sudoku, pc, ret, stderr>>
  /\ UNCHANGED <<given, passes, stack, gen, stdin, stdout, steps>>

\* return (cell_pointer == 25) && (getchar() == '\n');
CheckNormalRowEnd ==
  /\ pc = "normal_row"
  /\ io.cell_pointer = 25
  /\ IF AtEOF THEN LoadFails(io.pos)
     ELSE IF stdin[io.pos] = "\n"
     THEN AsciiRow(io.rows_loaded + 1, io.num_rows_loaded + 1, io.pos + 1)
     ELSE LoadFails(io.pos + 1)
  /\ UNCHANGED <<sudoku, given, passes, stack, gen, stdin, stdout, steps>>

\* The mutant of print_cell without the branch for an empty cell.
print_cell_no_bang(cell) ==
  IF bitset_is_unique(cell)
  THEN <<Digits[bitset_next(cell, 0) + 1], " ">>
  ELSE <<".", " ">>

\* What print writes for one cell: "! ", "%d " or ". ".
print_cell(cell) ==
  IF cell = {} THEN <<"!", " ">>
  ELSE IF bitset_is_unique(cell)
  THEN <<Digits[bitset_next(cell, 0) + 1], " ">>
  ELSE <<".", " ">>

\* print's loop over j for row i, from column j on, and the "|\n" after it.
RECURSIVE print_cells(_, _, _)
print_cells(s, i, j) ==
  IF j = 9 THEN <<"|", "\n">>
  ELSE (IF j % 3 = 0 THEN <<"|", " ">> ELSE << >>)
       \o print_cell(s[Cell(i, j)]) \o print_cells(s, i, j + 1)

\* One iteration of print's loop over i.
PrintRow ==
  /\ pc = "loaded"
  /\ ret = TRUE
  /\ io.i < 9
  /\ stdout' = stdout \o (IF io.i % 3 = 0 THEN delim ELSE << >>)
                      \o print_cells(sudoku, io.i, 0)
  /\ io' = [io EXCEPT !.i = io.i + 1]
  /\ UNCHANGED <<sudoku, given, pc, ret, stderr, passes, stack, gen, stdin, steps>>

\* The last printf of print, and its return.
PrintEnd ==
  /\ pc = "loaded"
  /\ ret = TRUE
  /\ io.i = 9
  /\ stdout' = stdout \o delim
  /\ pc' = "printed"
  /\ UNCHANGED <<sudoku, given, ret, stderr, passes, stack, gen, io, stdin, steps>>

NextIO ==
  \/ Load \/ LoadNumericChar \/ LoadNumericEnd
  \/ CheckPlusMinusChar \/ CheckNormalRowChar \/ CheckNormalRowEnd
  \/ PrintRow \/ PrintEnd

\* The two layouts, written from a symbol for each cell.
NumericText(sym) == [k \in 1..81 |-> sym[k - 1]]

BorderedText(sym) ==
  [k \in 1..338 |->
     LET line == (k - 1) \div 26
         at == (k - 1) % 26
     IN IF line % 4 = 0 THEN delim[at + 1]
        ELSE IF at = 25 THEN "\n"
        ELSE IF at % 8 = 0 THEN "|"
        ELSE IF at % 2 = 1 THEN " "
        ELSE sym[Cell(line - (line \div 4) - 1, (at - 2 - 2 * (at \div 8)) \div 2)]]

\* The position of cell c's symbol in a bordered text.
CellPos(c) ==
  26 * ((c \div 9) + ((c \div 9) \div 3) + 1) + 2 + 2 * (c % 9) + 2 * ((c % 9) \div 3) + 1

CellSymbols == {".", "!"} \cup Range(Digits)

IsNumericText(t) ==
  /\ Len(t) \in {81, 82}
  /\ \A k \in 1..81 : isdigit(t[k])
  /\ Len(t) = 82 => t[82] = "\n"

IsBorderedText(t) ==
  /\ Len(t) = 338
  /\ \A c \in Cells : t[CellPos(c)] \in CellSymbols
  /\ t = BorderedText([c \in Cells |-> t[CellPos(c)]])

\* The symbols of the solved grid, with every choice of four symbols for
\* the first and the last cell.
SymbolGrids ==
  {[c \in Cells |-> IF c \in {0, 80} THEN f[c] ELSE Digits[Solved[c + 1] + 1]] :
     f \in [{0, 80} -> {".", "0", "!", "7"}]}

\* Texts that are not well formed: a character replaced, the last one
\* missing, one too many.
Damaged(t) ==
  {[k \in 1..Len(t) |-> IF k = p THEN "x" ELSE t[k]] :
     p \in {1, 2, 26, 27, 28, 29, 81, 338} \cap (1..Len(t))}
  \cup {SubSeq(t, 1, Len(t) - 1), t \o <<"x">>, t \o <<"\n", "x">>}

IoInputs ==
  {BorderedText(sym) : sym \in SymbolGrids}
  \cup {NumericText(sym) : sym \in SymbolGrids}
  \cup {NumericText(sym) \o <<"\n">> : sym \in SymbolGrids}
  \cup Damaged(BorderedText([c \in Cells |-> Digits[Solved[c + 1] + 1]]))
  \cup Damaged(NumericText([c \in Cells |-> Digits[Solved[c + 1] + 1]]))
  \cup {<< >>}

\* The caller's array holds anything before load.
InitIO ==
  /\ stdin \in IoInputs
  /\ sudoku \in {AllOpen, Full}
  /\ given = sudoku
  /\ pc = "load"
  /\ ret = FALSE /\ stderr = 0 /\ passes = 0 /\ stack = << >>
  /\ gen = NoScan /\ io = NoIo /\ stdout = << >> /\ steps = 0

SpecIO == InitIO /\ [][NextIO]_vars

-----------------------------------------------------------------------------
(* The solutions of a grid, found by exhaustive extension: every           *)
(* assignment of one digit to each cell, taken from the cell's candidate   *)
(* set, with no digit twice in a row, column or box.                       *)

Peer(c, d) ==
  /\ c # d
  /\ \/ c \div 9 = d \div 9
     \/ c % 9 = d % 9
     \/ (c \div 27 = d \div 27 /\ (c % 9) \div 3 = (d % 9) \div 3)

OpenCells(g) == {c \in Cells : ~Resolved(g, c)}

\* The candidates of c that no resolved peer of c holds.
Allowed(g, c) == {d \in g[c] : \A e \in Cells : (Peer(c, e) /\ Resolved(g, e)) => g[e] # {d}}

\* P: the consistent assignments to the open cells below every cell of todo.
RECURSIVE Extend(_, _, _)
Extend(g, P, todo) ==
  IF todo = {} \/ P = {} THEN P
  ELSE LET c == CHOOSE x \in todo : \A y \in todo : x <= y
           Q == UNION {{p @@ (c :> d) :
                          d \in {x \in Allowed(g, c) :
                                   \A e \in DOMAIN p : Peer(c, e) => p[e] # x}} : p \in P}
       IN IF Q = {} THEN {} ELSE Extend(g, Q, todo \ {c})

Solutions(g) ==
  IF \E R \in Regions : DuplicateIn(g, R) THEN {}
  ELSE {[c \in Cells |-> IF c \in DOMAIN p THEN {p[c]} ELSE g[c]] :
          p \in Extend(g, {<< >>}, OpenCells(g))}

-----------------------------------------------------------------------------
(* Claims about solve (SpecSolve) *)

\* C1: if solve returns success, the grid it leaves satisfies is_valid (no
\* empty cell, no duplicate resolved digit in any row, column or box) and
\* needs_solving is false (every cell has exactly one candidate).
C1_SolveSuccessIsValidAndResolved ==
  (pc = "done" /\ ret = TRUE) =>
    /\ is_valid(sudoku) /\ ValidGrid(sudoku)
    /\ ~needs_solving(sudoku) /\ FullyResolved(sudoku)

\* solve has succeeded after at least two elimination passes.
C1_Witness == pc = "done" /\ ret = TRUE /\ passes >= 2 /\ given # sudoku

\* C7: a row with two resolved cells holding the same digit makes is_valid_row
\* false for that row; and whenever the grid is invalid on entry (a duplicate
\* resolved digit in a row, column or box, or an empty cell) solve returns
\* failure without running any elimination pass and leaves every cell as it was.
C7_InvalidOnEntryRejectedUnchanged ==
  pc = "done" =>
    /\ \A r \in 0..8 : DuplicateIn(given, RowCells(r)) => ~is_valid_row(given, r)
    /\ ~ValidGrid(given) => (~is_valid(given) /\ ret = FALSE /\ passes = 0 /\ sudoku = given)

\* solve has returned on a grid that had a duplicate resolved digit in a row.
C7_Witness ==
  /\ pc = "done" /\ ret = FALSE /\ passes = 0
  /\ \E r \in 0..8 : DuplicateIn(given, RowCells(r))

\* C8: the two failure modes of solve are told apart by the error report:
\* a failure on a grid that is invalid (on entry or after a pass) comes with
\* the ERROR line, and a failure without the ERROR line is the stuck case: at
\* least one pass ran, the grid left is valid, still not fully resolved, and
\* a full pass over it changes nothing.
C8_StuckAndContradictionDistinguished ==
  (pc = "done" /\ ret = FALSE) =>
    /\ stderr \in {0, 1}
    /\ ~ValidGrid(sudoku) => stderr = 1
    /\ ValidGrid(sudoku) =>
         /\ stderr = 0 /\ passes >= 1
         /\ ValidGrid(given) /\ ~FullyResolved(sudoku)
         /\ elimination_pass(sudoku).is_change = FALSE
         /\ elimination_pass(sudoku).sudoku = sudoku

\* solve has failed as stuck: no report, a valid grid with open cells left.
C8_Witness ==
  /\ pc = "done" /\ ret = FALSE /\ stderr = 0 /\ passes >= 2
  /\ ValidGrid(sudoku) /\ ~FullyResolved(sudoku)

-----------------------------------------------------------------------------
(* Claims about elimination and make_bitset (SpecElim) *)

\* C6: after eliminate_row, eliminate_col or eliminate_box every cell's
\* candidate set is a subset of its candidate set before the call, in the
\* region and everywhere else in the grid.
C6_EliminationMonotonic ==
  pc = "returned" => \A c \in Cells : sudoku[c] \subseteq given[c]

\* An elimination call has returned having removed candidates.
C6_Witness ==
  /\ pc = "returned" /\ ret = TRUE
  /\ \E c \in Cells : sudoku[c] # given[c] /\ sudoku[c] \subseteq given[c]

\* The digits that no resolved cell of region R holds.
UnusedDigits(g, R) == {d \in 1..9 : \A c \in R : ~(Resolved(g, c) /\ g[c] = {d})}

\* C10: for every region (row, column, box) make_bitset returns exactly the
\* digits that no resolved cell of the region holds, also when a digit is
\* held by two or more resolved cells of the region.
C10_MakeBitsetIsUnusedDigits ==
  \A n \in 0..8 :
    /\ make_bitset(sudoku, n, n + 1, 0, 9) = UnusedDigits(sudoku, RowCells(n))
    /\ make_bitset(sudoku, 0, 9, n, n + 1) = UnusedDigits(sudoku, ColCells(n))
    /\ make_bitset(sudoku, (n \div 3) * 3, (n \div 3) * 3 + 3, (n % 3) * 3, (n % 3) * 3 + 3)
         = UnusedDigits(sudoku, BoxCells(n))

-----------------------------------------------------------------------------
(* Claims about generic_solve (SpecSearch) *)

\* C2: on a grid that has exactly one solution generic_solve terminates,
\* returns success and leaves the grid equal to that solution.  Termination:
\* the recursion is never deeper than the number of open cells of the input,
\* a state that is not the final one always has a step to take (a call is
\* rejected, finds no open cell or tries solve; a "solved" or "return" state
\* has the frame it reads), and steps only grows.
C2_UniqueSolutionFound ==
  /\ Len(stack) <= Cardinality(OpenCells(given))
  /\ pc \in {"call", "solved", "return", "done"}
  /\ ret \in BOOLEAN
  /\ pc = "solved" => stack # << >>
  /\ pc = "done" =>
       /\ stack = << >>
       /\ \A sol \in Solutions(given) :
            Solutions(given) = {sol} => (ret = TRUE /\ sudoku = sol)

\* generic_solve has returned the solution of a one-solution grid with at
\* least 20 open cells on which solve alone fails, and the digit it found
\* for the first open cell is not the first one it tried.
C2_Witness ==
  /\ pc = "done" /\ ret = TRUE /\ given # sudoku
  /\ Cardinality(Solutions(given)) = 1
  /\ Cardinality(OpenCells(given)) >= 20
  /\ solve(given).ret = FALSE
  /\ sudoku[FirstOpenCell(given)] # {NextNum(given[FirstOpenCell(given)], 1)}

\* C3: on a grid that has no solution generic_solve returns failure and the
\* caller's grid is, cell for cell, the grid that was passed in.
C3_NoSolutionFailsAndRestores ==
  (pc = "done" /\ Solutions(given) = {}) => (ret = FALSE /\ sudoku = given)

\* C4: whenever generate returns, every resolved cell of the grid is needed:
\* solve fails on a copy of the grid in which that one cell holds all nine
\* candidates.
C4_GenerateLocallyMinimal ==
  pc = "done" =>
    \A i \in Cells :
      Resolved(sudoku, i) =>
        solve([copy_array(sudoku) EXCEPT ![i] = NINE_ONES]).ret = FALSE

\* generate has removed a cell and returned, and givens are left.
C4_Witness ==
  /\ pc = "done"
  /\ gen.removals > 0
  /\ \E i \in Cells : Resolved(sudoku, i)

\* generate has just removed a cell and is about to scan the grid again.
JustRemoved == pc = "scan" /\ gen.i = 0 /\ gen.removals > 0

\* C5: when generate is started on a grid that solve solves (a fully solved
\* valid grid is one: solve returns true on it without a pass), solve
\* succeeds on a copy of the grid after every removal and at return.
C5_GenerateKeepsSolvable ==
  (JustRemoved \/ pc = "done") =>
    (solve(copy_array(given)).ret => solve(copy_array(sudoku)).ret)

\* generate, started on the solved grid, has removed two cells.
C5_Witness ==
  /\ JustRemoved
  /\ given = Full /\ FullyResolved(given) /\ ValidGrid(given)
  /\ gen.removals = 2

\* A text with every '0' replaced by '.'.
Normalise(t) == [k \in 1..Len(t) |-> IF t[k] = "0" THEN "." ELSE t[k]]

\* C9 as stated: for a well-formed text in either layout, print after load
\* writes the text again, with '.' for every open cell.
C9_RoundTripBothLayouts ==
  (pc = "printed" /\ (IsNumericText(stdin) \/ IsBorderedText(stdin))) =>
    stdout = Normalise(stdin)

\* C9 amended: load accepts a well-formed text in either layout; for the
\* bordered layout print writes the text again, with '.' for every open
\* cell; for the 81-digit layout print writes the bordered text of the same
\* 81 symbols, with '.' for every '0'.
C9_RoundTripBordered ==
  /\ (pc \in {"loaded", "printed"} /\ (IsNumericText(stdin) \/ IsBorderedText(stdin)))
       => ret = TRUE
  /\ (pc = "printed" /\ IsBorderedText(stdin)) => stdout = Normalise(stdin)
  /\ (pc = "printed" /\ IsNumericText(stdin)) =>
       stdout = Normalise(BorderedText([c \in Cells |-> stdin[c + 1]]))

\* print has written the grid loaded from a bordered text that has a '0'
\* cell and a '!' cell.
C9_Witness ==
  /\ pc = "printed"
  /\ IsBorderedText(stdin)
  /\ stdin[CellPos(0)] = "0"
  /\ stdin[CellPos(80)] = "!"

\* Grid after is a sound result for the input grid before: fully resolved
\* and valid, every cell that was resolved in before holds the same digit,
\* and every other cell holds a digit of its candidate set in before.
SoundResult(before, after) ==
  /\ FullyResolved(after)
  /\ ValidGrid(after)
  /\ \A c \in Cells : Resolved(before, c) => after[c] = before[c]
  /\ \A c \in Cells : ~Resolved(before, c) => after[c] \subseteq before[c]

\* C11: whenever solve or generic_solve returns success, the grid it leaves
\* is a sound result for the grid it was called on: for solve, the snapshot
\* orig_sud the calling invocation took just before the call; for
\* generic_solve, the caller's grid.  Inputs with several solutions included.
C11_SolversAreSound ==
  /\ (pc = "solved" /\ ret = TRUE) => SoundResult(Top.orig_sud, sudoku)
  /\ (pc = "done" /\ ret = TRUE) => SoundResult(given, sudoku)

\* generic_solve has returned success, after a guess, on a grid that has
\* more than one solution.
C11_Witness ==
  /\ pc = "done" /\ ret = TRUE
  /\ given # sudoku
  /\ solve(given).ret = FALSE
  /\ Cardinality(Solutions(given)) >= 2

=============================================================================
